---- MODULE Spec2Model ----
(***************************************************************************)
(* Model of the TaxBot tax computation engine (src/tax_engine.py).         *)
(*                                                                         *)
(* The engine is a pipeline of pure functions.  A behaviour of the model   *)
(* is one call of one engine function: Init draws the function and its     *)
(* arguments, the action named after the function applies it and stores    *)
(* what the call produced (a returned value or a raised exception).        *)
(*                                                                         *)
(* The Streamlit script (src/app.py) is modelled beside it: session is      *)
(* st.session_state as the script assigns it, widgets the values of the    *)
(* rendered income inputs, screen what the last run of the script showed.  *)
(* A step of the session is one run of the script, started by one          *)
(* interaction of the user.                                                *)
(*                                                                         *)
(* Numbers.  Incomes are whole rupees.  Rates are kept as whole percents   *)
(* and tax amounts as exact decimals [r |-> rupees, u |-> millionths],     *)
(* 0 <= u < Micro, value r + u / Micro (r may be negative).  Three         *)
(* successive percentages (slab rate, surcharge, cess) need at most six    *)
(* decimals, so every amount of the engine is represented exactly; the     *)
(* rounding of Python's binary floats is not modelled.                     *)
(***************************************************************************)
EXTENDS Integers, Sequences, FiniteSets, TLC

VARIABLES call, result, session, widgets, screen

vars == <<call, result, session, widgets, screen>>

(***************************************************************************)
(* Bounds of the model.                                                    *)
(***************************************************************************)
\* incomes are drawn within Delta rupees of every breakpoint of the rules
Delta == 1
\* an income mapping handed to the engine holds at most MaxFields keys
MaxFields == 2

(***************************************************************************)
(* Exact decimal arithmetic.                                               *)
(***************************************************************************)
Micro == 100 * 100 * 100

Norm(r, u) == [r |-> r + (u \div Micro), u |-> u % Micro]

M(n) == [r |-> n, u |-> 0]

MAdd(a, b) == Norm(a.r + b.r, a.u + b.u)

MSub(a, b) == Norm(a.r - b.r, a.u - b.u)

\* a * p / 100
MulPct(a, p) ==
    Norm((a.r * p) \div 100,
         ((a.r * p) % 100) * (Micro \div 100) + (a.u * p) \div 100)

MLt(a, b) == a.r < b.r \/ (a.r = b.r /\ a.u < b.u)

MLe(a, b) == ~MLt(b, a)

\* Python's min(a, b) and max(a, b): the first argument on a tie
MMin(a, b) == IF MLt(b, a) THEN b ELSE a

Min(a, b) == IF b < a THEN b ELSE a

Max(a, b) == IF a < b THEN b ELSE a

(***************************************************************************)
(* Outcomes of a call.                                                     *)
(***************************************************************************)
Pending == [kind |-> "pending"]

Return(v) == [kind |-> "return", value |-> v]

Raise(e) == [kind |-> "raise", exc |-> e]

\* Python's None
None == [type |-> "NoneType"]

\* float('inf'): above every income of the model
Inf == 2147483647

(***************************************************************************)
(* get_tax_slabs                                                           *)
(***************************************************************************)
FY2024 == "FY 2024-25 / AY 2025-26"

FY2025 == "FY 2025-26 / AY 2026-27"

Slab(lower, upper, rate) == [lower |-> lower, upper |-> upper, rate |-> rate]

\* faulty variant: the Budget 2025 update moved the 5% slab to 4 lakh and
\* left the 0% slab ending at 3 lakh
get_tax_slabs_stale_bound(fy_ay) ==
    IF fy_ay = FY2024 THEN
        [type |-> "dict",
         slabs |-> << Slab(0, 300000, 0),
                      Slab(300000, 700000, 5),
                      Slab(700000, 1000000, 10),
                      Slab(1000000, 1200000, 15),
                      Slab(1200000, 1500000, 20),
                      Slab(1500000, Inf, 30) >>,
         standard_deduction |-> 75000,
         rebate_limit |-> 700000,
         rebate_max |-> 25000,
         advance_tax_threshold |-> 10000]
    ELSE IF fy_ay = FY2025 THEN
        [type |-> "dict",
         slabs |-> << Slab(0, 300000, 0),
                      Slab(400000, 700000, 5),
                      Slab(700000, 1000000, 10),
                      Slab(1000000, 1200000, 15),
                      Slab(1200000, 1500000, 20),
                      Slab(1500000, Inf, 30) >>,
         standard_deduction |-> 75000,
         rebate_limit |-> 1200000,
         rebate_max |-> 60000,
         advance_tax_threshold |-> 10000]
    ELSE None

get_tax_slabs(fy_ay) ==
    IF fy_ay = FY2024 THEN
        [type |-> "dict",
         slabs |-> << Slab(0, 300000, 0),
                      Slab(300000, 700000, 5),
                      Slab(700000, 1000000, 10),
                      Slab(1000000, 1200000, 15),
                      Slab(1200000, 1500000, 20),
                      Slab(1500000, Inf, 30) >>,
         standard_deduction |-> 75000,
         rebate_limit |-> 700000,
         rebate_max |-> 25000,
         advance_tax_threshold |-> 10000]
    ELSE IF fy_ay = FY2025 THEN
        [type |-> "dict",
         slabs |-> << Slab(0, 400000, 0),
                      Slab(400000, 700000, 5),
                      Slab(700000, 1000000, 10),
                      Slab(1000000, 1200000, 15),
                      Slab(1200000, 1500000, 20),
                      Slab(1500000, Inf, 30) >>,
         standard_deduction |-> 75000,
         rebate_limit |-> 1200000,
         rebate_max |-> 60000,
         advance_tax_threshold |-> 10000]
    ELSE None

\* config[...] raises TypeError when get_tax_slabs returned None
Subscriptable(config) == config.type # "NoneType"

(***************************************************************************)
(* calculate_income_tax                                                    *)
(***************************************************************************)
\* faulty variant: the loop compares the income with the slab's upper bound
loop_breaks_at_upper(taxable_income, slab) == taxable_income <= slab.upper

\* the loop leaves at the first slab the income does not reach
loop_breaks(taxable_income, slab) == taxable_income <= slab.lower

\* faulty variant: the income within the slab is not capped at the upper bound
taxable_in_slab_uncapped(taxable_income, slab) == taxable_income - slab.lower

taxable_in_slab(taxable_income, slab) ==
    Min(taxable_income, slab.upper) - slab.lower

slab_tax(taxable_income, slab) ==
    MulPct(M(taxable_in_slab(taxable_income, slab)), slab.rate)

\* the slab label: "Rs. lower - Rs. upper", or "Rs. lower+" for the open slab
slab_label(slab) ==
    IF slab.upper # Inf
    THEN [form |-> "range", lower |-> slab.lower, upper |-> slab.upper]
    ELSE [form |-> "from", lower |-> slab.lower, upper |-> Inf]

\* faulty variant: the entry carries the whole income as its taxable amount
breakdown_entry_whole_income(taxable_income, slab) ==
    [slab |-> slab_label(slab),
     rate |-> slab.rate,
     taxable_amount |-> taxable_income,
     tax |-> slab_tax(taxable_income, slab)]

breakdown_entry(taxable_income, slab) ==
    [slab |-> slab_label(slab),
     rate |-> slab.rate,
     taxable_amount |-> taxable_in_slab(taxable_income, slab),
     tax |-> slab_tax(taxable_income, slab)]

RECURSIVE slab_loop(_, _, _, _, _)
slab_loop(slabs, i, taxable_income, tax, tax_breakdown) ==
    IF i > Len(slabs) \/ loop_breaks(taxable_income, slabs[i])
    THEN [tax |-> tax, tax_breakdown |-> tax_breakdown]
    ELSE slab_loop(slabs, i + 1, taxable_income,
                   MAdd(tax, slab_tax(taxable_income, slabs[i])),
                   IF MLt(M(0), slab_tax(taxable_income, slabs[i]))
                   THEN Append(tax_breakdown,
                               breakdown_entry(taxable_income, slabs[i]))
                   ELSE tax_breakdown)

calculate_income_tax(taxable_income, fy_ay) ==
    LET config == get_tax_slabs(fy_ay) IN
    IF ~Subscriptable(config) THEN Raise("TypeError")
    ELSE Return(slab_loop(config.slabs, 1, taxable_income, M(0), << >>))

(***************************************************************************)
(* calculate_rebate_87a                                                    *)
(***************************************************************************)
\* faulty variant: the ceiling itself is not eligible
rebate_eligible_strict(taxable_income, config) ==
    taxable_income < config.rebate_limit

rebate_eligible(taxable_income, config) == taxable_income <= config.rebate_limit

calculate_rebate_87a(gross_tax, taxable_income, fy_ay) ==
    LET config == get_tax_slabs(fy_ay) IN
    IF ~Subscriptable(config) THEN Raise("TypeError")
    ELSE IF rebate_eligible(taxable_income, config)
         THEN Return(MMin(gross_tax, M(config.rebate_max)))
         ELSE Return(M(0))

(***************************************************************************)
(* calculate_cess_and_surcharge                                            *)
(***************************************************************************)
\* faulty variant: the thresholds belong to the higher bracket
surcharge_rate_inclusive(taxable_income) ==
    IF taxable_income >= 5000000 THEN
        IF taxable_income < 10000000 THEN 10
        ELSE IF taxable_income < 20000000 THEN 15
        ELSE IF taxable_income < 50000000 THEN 25
        ELSE 37
    ELSE 0

\* the surcharge rate in percent
surcharge_rate(taxable_income) ==
    IF taxable_income > 5000000 THEN
        IF taxable_income <= 10000000 THEN 10
        ELSE IF taxable_income <= 20000000 THEN 15
        ELSE IF taxable_income <= 50000000 THEN 25
        ELSE 37
    ELSE 0

cess_of(tax_after_rebate, surcharge) ==
    MulPct(MAdd(tax_after_rebate, surcharge), 4)

calculate_cess_and_surcharge(tax_after_rebate, taxable_income) ==
    LET surcharge == MulPct(tax_after_rebate, surcharge_rate(taxable_income))
        cess == cess_of(tax_after_rebate, surcharge)
    IN  Return([surcharge |-> surcharge, cess |-> cess])

(***************************************************************************)
(* calculate_capital_gains_tax                                             *)
(***************************************************************************)
\* faulty variant: the long-term exemption is forgotten
ltcg_taxable_no_exemption(ltcg) == Max(0, ltcg)

ltcg_taxable(ltcg) == Max(0, ltcg - 100000)

calculate_capital_gains_tax(stcg, ltcg) ==
    Return([stcg_tax |-> MulPct(M(stcg), 15),
            ltcg_tax |-> MulPct(M(ltcg_taxable(ltcg)), 10)])

(***************************************************************************)
(* compute_total_tax_liability                                             *)
(***************************************************************************)
\* income_details.get(key, 0)
get(income_details, key) ==
    IF key \in DOMAIN income_details THEN income_details[key] ELSE 0

gross_salary(income_details) ==
    get(income_details, "basic_salary") + get(income_details, "hra")
        + get(income_details, "bonus")

rental_income(income_details) ==
    get(income_details, "rent_received") - get(income_details, "municipal_tax")
        - get(income_details, "interest_paid")

\* faulty variant: the expenses are subtracted from the net profit
business_income_less_expenses(income_details) ==
    get(income_details, "net_profit") - get(income_details, "expenses")

business_income(income_details) == get(income_details, "net_profit")

other_income(income_details) ==
    get(income_details, "dividends") + get(income_details, "interest_income")

\* faulty variant: the last branch is an else, so every unrecognised
\* employment type is taxed as an investor
derive_taxable_income_else_investor(income_details, fy_ay, employment_type) ==
    IF employment_type = "Salaried" THEN
        LET config == get_tax_slabs(fy_ay) IN
        IF ~Subscriptable(config) THEN Raise("TypeError")
        ELSE Return(Max(0, gross_salary(income_details)
                               - config.standard_deduction))
    ELSE IF employment_type = "Rental" THEN
        Return(Max(0, rental_income(income_details)))
    ELSE IF employment_type \in {"Freelancer", "Business"} THEN
        Return(business_income(income_details))
    ELSE Return(other_income(income_details))

\* lines 119-142: the taxable income of the employment type, or the
\* exception of the standard-deduction lookup
derive_taxable_income(income_details, fy_ay, employment_type) ==
    IF employment_type = "Salaried" THEN
        LET config == get_tax_slabs(fy_ay) IN
        IF ~Subscriptable(config) THEN Raise("TypeError")
        ELSE Return(Max(0, gross_salary(income_details)
                               - config.standard_deduction))
    ELSE IF employment_type = "Rental" THEN
        Return(Max(0, rental_income(income_details)))
    ELSE IF employment_type \in {"Freelancer", "Business"} THEN
        Return(business_income(income_details))
    ELSE IF employment_type = "Investor" THEN
        Return(other_income(income_details))
    ELSE Return(0)

\* faulty variant: the cess is left out of the total
total_of_without_cess(tax_after_rebate, surcharge, cess, stcg_tax, ltcg_tax) ==
    MAdd(MAdd(MAdd(tax_after_rebate, surcharge), stcg_tax), ltcg_tax)

total_of(tax_after_rebate, surcharge, cess, stcg_tax, ltcg_tax) ==
    MAdd(MAdd(MAdd(MAdd(tax_after_rebate, surcharge), cess), stcg_tax), ltcg_tax)

advance_tax_due(total_tax, config) ==
    MLt(M(config.advance_tax_threshold), total_tax)

\* lines 144-178, entered with the taxable income of a supported or
\* unsupported year
tax_result(income_details, fy_ay, taxable_income) ==
    LET slabs_out == calculate_income_tax(taxable_income, fy_ay) IN
    IF slabs_out.kind = "raise" THEN slabs_out
    ELSE
    LET gross_tax == slabs_out.value.tax
        rebate_87a == calculate_rebate_87a(gross_tax, taxable_income, fy_ay).value
        tax_after_rebate == MSub(gross_tax, rebate_87a)
        sc == calculate_cess_and_surcharge(tax_after_rebate, taxable_income).value
        cg == calculate_capital_gains_tax(get(income_details, "stcg"),
                                          get(income_details, "ltcg")).value
        total_tax == total_of(tax_after_rebate, sc.surcharge, sc.cess,
                              cg.stcg_tax, cg.ltcg_tax)
    IN  Return([taxable_income |-> taxable_income,
                gross_tax |-> gross_tax,
                rebate_87a |-> rebate_87a,
                tax_after_rebate |-> tax_after_rebate,
                surcharge |-> sc.surcharge,
                cess |-> sc.cess,
                stcg_tax |-> cg.stcg_tax,
                ltcg_tax |-> cg.ltcg_tax,
                total_tax |-> total_tax,
                advance_tax_required |->
                    advance_tax_due(total_tax, get_tax_slabs(fy_ay)),
                tax_breakdown |-> slabs_out.value.tax_breakdown])

\* faulty variant: the capital gains are read as income_details['stcg'] and
\* income_details['ltcg'], which raise KeyError for an absent key
compute_total_indexing_gains(income_details, fy_ay, employment_type) ==
    LET derived == derive_taxable_income(income_details, fy_ay, employment_type)
    IN  IF derived.kind = "raise" THEN derived
        ELSE IF ~({"stcg", "ltcg"} \subseteq DOMAIN income_details)
             THEN Raise("KeyError")
             ELSE tax_result(income_details, fy_ay, derived.value)

compute_total_tax_liability(income_details, fy_ay, employment_type) ==
    LET derived == derive_taxable_income(income_details, fy_ay, employment_type)
    IN  IF derived.kind = "raise" THEN derived
        ELSE tax_result(income_details, fy_ay, derived.value)

(***************************************************************************)
(* The inputs of the calls.                                                *)
(***************************************************************************)
SupportedYears == {FY2024, FY2025}

FiscalYears == SupportedYears \cup {"FY 1999-00"}

\* the employment types of the profile form
EmploymentTypes ==
    {"Salaried", "Freelancer", "Business", "Rental", "Investor", "Mixed"}

\* the employment types a caller hands to the engine: those of the form, and
\* a string the engine's comparisons do not match
CallerTypes == EmploymentTypes \cup {"salaried"}

\* the keys of the income mapping the income tab stores
Keys ==
    {"basic_salary", "hra", "pf", "bonus", "rent_paid", "employer_nps",
     "rent_received", "municipal_tax", "interest_paid", "net_profit",
     "expenses", "stcg", "ltcg", "dividends", "interest_income",
     "tds_paid", "advance_tax_paid"}

\* the incomes at which a rule changes
Breakpoints ==
    {0, 300000, 400000, 525000, 700000, 1000000, 1200000, 1500000,
     2000000, 5000000, 10000000, 20000000, 50000000}

TestIncomes == {b + d : b \in Breakpoints, d \in (-Delta)..Delta}

\* tax amounts: the slab tax of every test income, and the rebate caps
TestTaxes ==
    {calculate_income_tax(t, fy).value.tax : t \in TestIncomes, fy \in SupportedYears}
        \cup {M(25000), M(60000)}

\* capital gains around the long-term exemption
TestGains == {100000 + d : d \in (-Delta)..Delta} \cup {-100, 0, 150000, 200000}

\* amounts the income form yields for a field (its inputs have min_value=0),
\* drawn independently for every key of a mapping
Amounts == {0, 600000}

\* amounts drawn for all the keys of a mapping at once: one above the 50 lakh
\* surcharge threshold, and a negative one, which the form refuses and the
\* engine, validating nothing, accepts from any other caller
UniformAmounts == {6000000, -1}

KeySets == {S \in SUBSET Keys : Cardinality(S) <= MaxFields}

IncomeProfiles ==
    UNION {[S -> Amounts] \cup {[k \in S |-> a] : a \in UniformAmounts} :
           S \in KeySets}

(***************************************************************************)
(* The session before the profile form is submitted.                       *)
(***************************************************************************)
\* st.session_state after the first run of the script
InitialSession == [form_submitted |-> FALSE]

\* no income input is rendered yet
NoWidgets == [k \in {} |-> 0]

\* the first run shows the form and the prompt to submit it
PromptScreen ==
    [page |-> "prompt", taxation |-> [msg |-> "none", raised_by |-> "none"],
     reports |-> "none", report |-> << >>]

(***************************************************************************)
(* The state machine: one call of one function.                            *)
(***************************************************************************)
Init ==
    /\ session = InitialSession
    /\ widgets = NoWidgets
    /\ screen = PromptScreen
    /\ result = Pending
    /\ \/ call \in [fn : {"get_tax_slabs"}, fy_ay : FiscalYears]
       \/ call \in [fn : {"calculate_income_tax"},
                    taxable_income : TestIncomes, fy_ay : FiscalYears]
       \/ call \in [fn : {"calculate_rebate_87a"}, gross_tax : TestTaxes,
                    taxable_income : TestIncomes, fy_ay : FiscalYears]
       \/ call \in [fn : {"calculate_cess_and_surcharge"},
                    tax_after_rebate : TestTaxes, taxable_income : TestIncomes]
       \/ call \in [fn : {"calculate_capital_gains_tax"},
                    stcg : TestGains, ltcg : TestGains]
       \/ call \in [fn : {"compute_total_tax_liability"},
                    income_details : IncomeProfiles, fy_ay : FiscalYears,
                    employment_type : CallerTypes]

Called(fn) == call.fn = fn /\ result.kind = "pending"

Done(fn) == call.fn = fn /\ result.kind # "pending"

Returned(fn) == call.fn = fn /\ result.kind = "return"

CallGetTaxSlabs ==
    /\ Called("get_tax_slabs")
    /\ result' = Return(get_tax_slabs(call.fy_ay))
    /\ UNCHANGED <<call, session, widgets, screen>>

CallCalculateIncomeTax ==
    /\ Called("calculate_income_tax")
    /\ result' = calculate_income_tax(call.taxable_income, call.fy_ay)
    /\ UNCHANGED <<call, session, widgets, screen>>

CallCalculateRebate87a ==
    /\ Called("calculate_rebate_87a")
    /\ result' = calculate_rebate_87a(call.gross_tax, call.taxable_income,
                                      call.fy_ay)
    /\ UNCHANGED <<call, session, widgets, screen>>

CallCalculateCessAndSurcharge ==
    /\ Called("calculate_cess_and_surcharge")
    /\ result' = calculate_cess_and_surcharge(call.tax_after_rebate,
                                              call.taxable_income)
    /\ UNCHANGED <<call, session, widgets, screen>>

CallCalculateCapitalGainsTax ==
    /\ Called("calculate_capital_gains_tax")
    /\ result' = calculate_capital_gains_tax(call.stcg, call.ltcg)
    /\ UNCHANGED <<call, session, widgets, screen>>

CallComputeTotalTaxLiability ==
    /\ Called("compute_total_tax_liability")
    /\ result' = compute_total_tax_liability(call.income_details, call.fy_ay,
                                             call.employment_type)
    /\ UNCHANGED <<call, session, widgets, screen>>

Next ==
    \/ CallGetTaxSlabs
    \/ CallCalculateIncomeTax
    \/ CallCalculateRebate87a
    \/ CallCalculateCessAndSurcharge
    \/ CallCalculateCapitalGainsTax
    \/ CallComputeTotalTaxLiability

Spec == Init /\ [][Next]_vars

(***************************************************************************)
(* The Streamlit script, src/app.py.  Every interaction of the user runs   *)
(* the whole script again, top to bottom: the profile form, then (once the *)
(* profile is submitted) every tab.  st.session_state is a dictionary: a   *)
(* key is present only once the script has assigned it.                    *)
(***************************************************************************)
\* st.session_state.<key> = value
Assign(state, key, value) == (key :> value) @@ state

\* options of the profile form: two of its age groups and its default
\* residential status (the script only stores and echoes these two fields),
\* the one fiscal year it offers, and every employment type
AgeGroups == {"Below 60", "60 and above"}

ResidentialStatuses == {"Resident"}

FormYears == {FY2025}

Profiles ==
    [age_group : AgeGroups, residential_status : ResidentialStatuses,
     fy_ay : FormYears, employment_type : EmploymentTypes]

\* the number inputs tab_income renders for an employment type
WidgetsOf(employment_type) ==
    CASE employment_type = "Salaried" ->
            {"basic_salary", "pf", "bonus", "hra", "rent_paid", "employer_nps"}
      [] employment_type = "Rental" ->
            {"rent_received", "municipal_tax", "interest_paid"}
      [] employment_type \in {"Freelancer", "Business"} ->
            {"net_profit", "expenses"}
      [] employment_type = "Investor" ->
            {"stcg", "ltcg", "dividends", "interest_income"}
      [] OTHER -> {}

\* the expander "Optional Fields" is rendered for every employment type
OptionalWidgets == {"tds_paid", "advance_tax_paid"}

\* get_smart_tips is imported from a module outside src/: it returns a list
\* of tips or raises, and the script reads nothing of the list itself
SomeTips == [type |-> "list"]

get_smart_tips_outcomes == {Return(SomeTips), Raise("Exception")}

\* display_visualizations and display_tips draw with plotly and streamlit,
\* with no try of their own: they return or raise into the script's try
display_outcomes == {"shown", "raised"}

\* generate_pdf_report returns the html, or None from its except branch
generate_pdf_report_outcomes == {"html", "None"}

\* the form: on submit the profile is stored, otherwise nothing is
personal_info(state, event) ==
    IF event.kind = "submit"
    THEN Assign(Assign(Assign(Assign(Assign(state,
            "form_submitted", TRUE),
            "age_group", event.profile.age_group),
            "residential_status", event.profile.residential_status),
            "fy_ay", event.profile.fy_ay),
            "employment_type", event.profile.employment_type)
    ELSE state

\* the keyed number inputs of this run: an input rendered in the last run
\* keeps its value (or takes the value the user just typed), an input that
\* was not rendered starts at value=0, and one not rendered now is dropped
income_widgets(shown, employment_type, event) ==
    [k \in WidgetsOf(employment_type) \cup OptionalWidgets |->
        IF event.kind = "edit" /\ event.key = k THEN event.value
        ELSE IF k \in DOMAIN shown THEN shown[k]
        ELSE 0]

\* tab_income: every key defaults to 0 and is overwritten by its input if
\* that is rendered; the dictionary is stored on every run
tab_income(state, shown) ==
    Assign(state, "income_details",
           [k \in Keys |-> IF k \in DOMAIN shown THEN shown[k] ELSE 0])

\* what tab_taxation leaves behind: the session and what it displayed
Taxation(state, msg, raised_by) ==
    [session |-> state, msg |-> msg, raised_by |-> raised_by]

\* st.session_state.tax_result = tax_result; st.session_state.tips = tips
store_result(state, computed, tips) ==
    Assign(Assign(state, "tax_result", computed), "tips", tips)

\* faulty variant: the result is stored before the tips are asked for
try_block_stores_before_tips(state, outcome, tips, display) ==
    IF outcome.kind = "raise"
    THEN Taxation(state, "error", "compute_total_tax_liability")
    ELSE IF tips.kind = "raise"
    THEN Taxation(Assign(state, "tax_result", outcome.value),
                  "error", "get_smart_tips")
    ELSE IF display = "raised"
    THEN Taxation(store_result(state, outcome.value, tips.value),
                  "error", "display_visualizations")
    ELSE Taxation(store_result(state, outcome.value, tips.value),
                  "success", "none")

\* the try block of tab_taxation, given how its calls end: the result is
\* computed, the tips are asked for, both are stored, success is reported
\* and the results are displayed; whatever raises is shown by st.error
try_block(state, outcome, tips, display) ==
    IF outcome.kind = "raise"
    THEN Taxation(state, "error", "compute_total_tax_liability")
    ELSE IF tips.kind = "raise"
    THEN Taxation(state, "error", "get_smart_tips")
    ELSE IF display = "raised"
    THEN Taxation(store_result(state, outcome.value, tips.value),
                  "error", "display_visualizations")
    ELSE Taxation(store_result(state, outcome.value, tips.value),
                  "success", "none")

\* tab_taxation: the try block runs on a click of "Calculate Tax"
tab_taxation(state, event) ==
    IF "income_details" \notin DOMAIN state THEN Taxation(state, "info", "none")
    ELSE IF event.kind # "calculate" THEN Taxation(state, "none", "none")
    ELSE try_block(state,
                   compute_total_tax_liability(state["income_details"],
                        state["fy_ay"], state["employment_type"]),
                   event.tips, event.display)

\* the arguments offer_pdf_download hands to generate_pdf_report
report_arguments(state) ==
    [income_details |-> state["income_details"],
     tax_result |-> state["tax_result"],
     tips |-> state["tips"],
     employment_type |-> state["employment_type"],
     fy_ay |-> state["fy_ay"]]

\* tab_reports: the download is offered when both keys are in the session;
\* a click of "Generate PDF Report" builds the report from the session
tab_reports(state, event) ==
    IF "tax_result" \in DOMAIN state /\ "tips" \in DOMAIN state
    THEN IF event.kind # "generate"
         THEN [shown |-> "offer", report |-> << >>]
         ELSE IF event.pdf = "html"
         THEN [shown |-> "generated", report |-> <<report_arguments(state)>>]
         ELSE [shown |-> "failed", report |-> << >>]
    ELSE [shown |-> "info", report |-> << >>]

\* what a run of the script leaves behind once every tab has run
rendered(inputs, taxation, reports) ==
    [session |-> taxation.session, widgets |-> inputs,
     screen |-> [page |-> "tabs",
                 taxation |-> [msg |-> taxation.msg,
                               raised_by |-> taxation.raised_by],
                 reports |-> reports.shown,
                 report |-> reports.report]]

\* tab_reports runs on the session tab_taxation has left
tabs_from_reports(inputs, taxation, event) ==
    rendered(inputs, taxation, tab_reports(taxation.session, event))

\* tab_income stores the inputs, then tab_taxation runs
tabs_from_income(submitted, inputs, event) ==
    tabs_from_reports(inputs, tab_taxation(tab_income(submitted, inputs), event),
                      event)

\* the tabs are there once the profile is submitted, else the prompt is
tabs(submitted, shown, event) ==
    IF ~submitted["form_submitted"]
    THEN [session |-> submitted, widgets |-> NoWidgets, screen |-> PromptScreen]
    ELSE tabs_from_income(submitted,
             income_widgets(shown, submitted["employment_type"], event), event)

\* one run of the script
script(state, shown, event) == tabs(personal_info(state, event), shown, event)

NoCall == [fn |-> "none"]

SessionInit ==
    /\ call = NoCall
    /\ result = Pending
    /\ session = InitialSession
    /\ widgets = NoWidgets
    /\ screen = PromptScreen

Rerun(event) ==
    \E after \in {script(session, widgets, event)} :
        /\ session' = after.session
        /\ widgets' = after.widgets
        /\ screen' = after.screen
        /\ UNCHANGED <<call, result>>

\* the user submits the profile form, which every run renders
SubmitProfile ==
    /\ screen.page \in {"prompt", "tabs"}
    /\ \E profile \in Profiles :
        Rerun([kind |-> "submit", profile |-> profile])

\* the user changes one of the rendered number inputs
EditIncome ==
    /\ screen.page = "tabs"
    /\ \E key \in DOMAIN widgets, value \in Amounts :
        /\ value # widgets[key]
        /\ Cardinality({k \in DOMAIN widgets : k # key /\ widgets[k] # 0})
              + (IF value # 0 THEN 1 ELSE 0) <= MaxFields
        /\ Rerun([kind |-> "edit", key |-> key, value |-> value])

\* the user clicks "Calculate Tax"
ClickCalculate ==
    /\ screen.page = "tabs"
    /\ screen.taxation.msg # "info"
    /\ \E tips \in get_smart_tips_outcomes, display \in display_outcomes :
        Rerun([kind |-> "calculate", tips |-> tips, display |-> display])

\* the user clicks "Generate PDF Report", which is there once it is offered
ClickGenerateReport ==
    /\ screen.reports \in {"offer", "generated", "failed"}
    /\ \E pdf \in generate_pdf_report_outcomes :
        Rerun([kind |-> "generate", pdf |-> pdf])

SessionNext ==
    \/ SubmitProfile
    \/ EditIncome
    \/ ClickCalculate
    \/ ClickGenerateReport

SessionSpec == SessionInit /\ [][SessionNext]_vars

(***************************************************************************)
(* Claims.                                                                 *)
(***************************************************************************)
Supported(fy_ay) == fy_ay \in SupportedYears

\* the slab tax of an income in a supported year
TaxAt(taxable_income, fy_ay) ==
    calculate_income_tax(taxable_income, fy_ay).value.tax

\* C1: for a fiscal-year key other than the two configured ones,
\* compute_total_tax_liability fails with UnsupportedFiscalYear and produces
\* no TaxResult, and get_tax_slabs itself fails with UnsupportedFiscalYear
\* instead of returning a value.
C1_UnsupportedYearRaisesUnsupportedFiscalYear ==
    /\ (Done("compute_total_tax_liability") /\ ~Supported(call.fy_ay)) =>
           (result.kind = "raise" /\ result.exc = "UnsupportedFiscalYear")
    /\ (Done("get_tax_slabs") /\ ~Supported(call.fy_ay)) =>
           (result.kind = "raise" /\ result.exc = "UnsupportedFiscalYear")

\* the sum over ALL slabs of max(0, min(T, upper) - lower) * rate
RECURSIVE ReferenceSlabSum(_, _, _)
ReferenceSlabSum(T, slabs, i) ==
    IF i > Len(slabs) THEN M(0)
    ELSE MAdd(MulPct(M(Max(0, Min(T, slabs[i].upper) - slabs[i].lower)),
                     slabs[i].rate),
              ReferenceSlabSum(T, slabs, i + 1))

\* the full contributions of the slabs 1..k
RECURSIVE FullSlabs(_, _)
FullSlabs(slabs, k) ==
    IF k = 0 THEN M(0)
    ELSE MAdd(FullSlabs(slabs, k - 1),
              MulPct(M(slabs[k].upper - slabs[k].lower), slabs[k].rate))

\* C2: in a supported year and for T >= 0 the gross tax of
\* calculate_income_tax equals the reference sum over all slabs; at T equal
\* to a slab's upper bound it is the sum of the full contributions of the
\* slabs up to that one, and the next slab contributes nothing.
C2_GrossTaxIsReferenceSum ==
    (Returned("calculate_income_tax") /\ call.taxable_income >= 0) =>
        LET T == call.taxable_income
            slabs == get_tax_slabs(call.fy_ay).slabs
            out == result.value
        IN  /\ out.tax = ReferenceSlabSum(T, slabs, 1)
            /\ \A k \in 1..Len(slabs) :
                   T = slabs[k].upper =>
                       /\ out.tax = FullSlabs(slabs, k)
                       /\ \A e \in 1..Len(out.tax_breakdown) :
                              out.tax_breakdown[e].slab.lower < slabs[k].upper

C2_Witness ==
    /\ Returned("calculate_income_tax")
    /\ call.fy_ay = FY2025
    /\ call.taxable_income = 1000000
    /\ result.value.tax = M(45000)

\* C3: in a supported year calculate_rebate_87a returns min(grossTax,
\* rebateCap) when the taxable income is at most the year's rebate ceiling and
\* 0 above it; for FY 2025-26 the rebate at 1200000 is min(grossTax, 60000)
\* and at 1200001 it is 0, so tax after rebate jumps upward between the two.
C3_RebateRuleAndCliff ==
    Returned("calculate_rebate_87a") =>
        LET T == call.taxable_income
            g == call.gross_tax
            config == get_tax_slabs(call.fy_ay)
            g0 == TaxAt(1200000, FY2025)
            g1 == TaxAt(1200001, FY2025)
        IN  /\ T <= config.rebate_limit =>
                   result.value = MMin(g, M(config.rebate_max))
            /\ T > config.rebate_limit => result.value = M(0)
            /\ (call.fy_ay = FY2025 /\ T = 1200000) =>
                   result.value = MMin(g, M(60000))
            /\ (call.fy_ay = FY2025 /\ T = 1200001) => result.value = M(0)
            /\ (call.fy_ay = FY2025 /\ T = 1200000 /\ g = g0) =>
                   MLt(MSub(g0, result.value),
                       MSub(g1, calculate_rebate_87a(g1, 1200001, FY2025).value))

C3_Witness ==
    /\ Returned("calculate_rebate_87a")
    /\ call.fy_ay = FY2025
    /\ call.taxable_income = 1200000
    /\ call.gross_tax = M(75000)
    /\ result.value = M(60000)

\* the surcharge rate of the claim, in percent
ClaimedSurchargePct(T) ==
    IF T <= 5000000 THEN 0
    ELSE IF T <= 10000000 THEN 10
    ELSE IF T <= 20000000 THEN 15
    ELSE IF T <= 50000000 THEN 25
    ELSE 37

\* C4: calculate_cess_and_surcharge returns surcharge = r(T) * A with r the
\* step function 0 / 10% / 15% / 25% / 37% at 50 lakh, 1 crore, 2 crore and
\* 5 crore, so with A fixed the surcharge never decreases as T grows and is 0
\* up to 50 lakh; and cess = 4% * (A + surcharge).
C4_SurchargeStepAndCess ==
    Returned("calculate_cess_and_surcharge") =>
        LET T == call.taxable_income
            A == call.tax_after_rebate
            out == result.value
        IN  /\ out.surcharge = MulPct(A, ClaimedSurchargePct(T))
            /\ out.cess = MulPct(MAdd(A, out.surcharge), 4)
            /\ T <= 5000000 => out.surcharge = M(0)
            /\ \A T2 \in TestIncomes :
                   T <= T2 =>
                       MLe(out.surcharge,
                           calculate_cess_and_surcharge(A, T2).value.surcharge)

C4_Witness ==
    /\ Returned("calculate_cess_and_surcharge")
    /\ call.taxable_income = 50000001
    /\ call.tax_after_rebate = M(60000)
    /\ result.value.surcharge = M(22200)
    /\ result.value.cess = M(3288)

\* C5: calculate_capital_gains_tax returns short-term tax 15% * STCG and
\* long-term tax 10% * max(0, LTCG - 100000), whatever the taxable income,
\* fiscal year and employment type; LTCG <= 100000 gives 0 and LTCG = 150000
\* gives 5000.
C5_CapitalGainsTax ==
    /\ Returned("calculate_capital_gains_tax") =>
           /\ result.value.stcg_tax = MulPct(M(call.stcg), 15)
           /\ result.value.ltcg_tax = MulPct(M(Max(0, call.ltcg - 100000)), 10)
           /\ call.ltcg <= 100000 => result.value.ltcg_tax = M(0)
           /\ call.ltcg = 150000 => result.value.ltcg_tax = M(5000)
    /\ Returned("compute_total_tax_liability") =>
           LET stcg == IF "stcg" \in DOMAIN call.income_details
                       THEN call.income_details["stcg"] ELSE 0
               ltcg == IF "ltcg" \in DOMAIN call.income_details
                       THEN call.income_details["ltcg"] ELSE 0
           IN  /\ result.value.stcg_tax = MulPct(M(stcg), 15)
               /\ result.value.ltcg_tax = MulPct(M(Max(0, ltcg - 100000)), 10)

C5_Witness ==
    /\ Returned("calculate_capital_gains_tax")
    /\ call.ltcg = 150000
    /\ call.stcg = 200000
    /\ result.value.ltcg_tax = M(5000)
    /\ result.value.stcg_tax = M(30000)

\* the income profile of scenario A: basic salary 600000 and nothing else
ScenarioA ==
    /\ call.fn = "compute_total_tax_liability"
    /\ call.fy_ay = FY2025
    /\ call.employment_type = "Salaried"
    /\ "basic_salary" \in DOMAIN call.income_details
    /\ call.income_details["basic_salary"] = 600000
    /\ \A k \in DOMAIN call.income_details :
           k # "basic_salary" => call.income_details[k] = 0

\* C6: the TaxResult of compute_total_tax_liability satisfies
\* tax_after_rebate = gross_tax - rebate_87a, total_tax = tax_after_rebate +
\* surcharge + cess + stcg_tax + ltcg_tax with surcharge and cess computed
\* from tax after rebate and the slab tax from the taxable income alone, and
\* advance_tax_required holds exactly when total_tax > 10000; scenario A gives
\* taxable 525000, gross tax 6250, rebate 6250, total 0, no advance tax.
C6_TaxResultIdentities ==
    Returned("compute_total_tax_liability") =>
        LET out == result.value
            slabs == get_tax_slabs(call.fy_ay).slabs
        IN  /\ out.tax_after_rebate = MSub(out.gross_tax, out.rebate_87a)
            /\ out.total_tax =
                   MAdd(out.tax_after_rebate,
                        MAdd(out.surcharge,
                             MAdd(out.cess, MAdd(out.stcg_tax, out.ltcg_tax))))
            /\ out.surcharge =
                   MulPct(out.tax_after_rebate,
                          ClaimedSurchargePct(out.taxable_income))
            /\ out.cess = MulPct(MAdd(out.tax_after_rebate, out.surcharge), 4)
            /\ out.gross_tax =
                   ReferenceSlabSum(out.taxable_income, slabs, 1)
            /\ out.advance_tax_required = MLt(M(10000), out.total_tax)
            /\ ScenarioA =>
                   /\ out.taxable_income = 525000
                   /\ out.gross_tax = M(6250)
                   /\ out.rebate_87a = M(6250)
                   /\ out.tax_after_rebate = M(0)
                   /\ out.surcharge = M(0)
                   /\ out.cess = M(0)
                   /\ out.total_tax = M(0)
                   /\ out.advance_tax_required = FALSE

C6_Witness ==
    /\ Returned("compute_total_tax_liability")
    /\ ScenarioA
    /\ result.value.gross_tax = M(6250)
    /\ result.value.total_tax = M(0)

\* the value of a field of the mapping, an absent field counting as 0
Field(income_details, key) ==
    IF key \in DOMAIN income_details THEN income_details[key] ELSE 0

\* the fields no variant of the derivation names
UnreadKeys ==
    {"pf", "employer_nps", "rent_paid", "expenses", "tds_paid",
     "advance_tax_paid"}

\* the mapping without some of its keys
Without(income_details, keys) ==
    [k \in DOMAIN income_details \ keys |-> income_details[k]]

\* the taxable income the claim states for each employment type
ClaimedTaxableIncome(d, fy_ay, employment_type) ==
    IF employment_type = "Salaried" THEN
        Max(0, Field(d, "basic_salary") + Field(d, "hra") + Field(d, "bonus")
                   - get_tax_slabs(fy_ay).standard_deduction)
    ELSE IF employment_type = "Rental" THEN
        Max(0, Field(d, "rent_received") - Field(d, "municipal_tax")
                   - Field(d, "interest_paid"))
    ELSE IF employment_type \in {"Freelancer", "Business"} THEN
        Field(d, "net_profit")
    ELSE IF employment_type = "Investor" THEN
        Field(d, "dividends") + Field(d, "interest_income")
    ELSE 0

\* C7: compute_total_tax_liability derives the taxable income by employment
\* type: Salaried max(0, basic + hra + bonus - standard deduction), Rental
\* max(0, rent received - municipal tax - interest paid), Freelancer and
\* Business the net profit as given, Investor dividends + interest income;
\* pf, employer_nps, rent_paid, expenses, tds_paid and advance_tax_paid never
\* change the result.
C7_TaxableIncomeByEmploymentType ==
    Returned("compute_total_tax_liability") =>
        LET d == call.income_details IN
        /\ call.employment_type # "Mixed" =>
               result.value.taxable_income =
                   ClaimedTaxableIncome(d, call.fy_ay, call.employment_type)
        /\ \A k \in UnreadKeys \cap DOMAIN d :
               result = compute_total_tax_liability(Without(d, {k}), call.fy_ay,
                                                    call.employment_type)

C7_Witness ==
    /\ Returned("compute_total_tax_liability")
    /\ call.employment_type = "Freelancer"
    /\ DOMAIN call.income_details = {"net_profit", "expenses"}
    /\ call.income_details["net_profit"] = 600000
    /\ call.income_details["expenses"] = 600000
    /\ result.value.taxable_income = 600000

\* C8: for every employment type and every income profile, whatever the
\* signs of its amounts, the taxable_income of the returned TaxResult is
\* >= 0.
C8_TaxableIncomeNonNegative ==
    Returned("compute_total_tax_liability") => result.value.taxable_income >= 0

\* the mapping with the given absent keys supplied as 0
WithZeros(income_details, keys) == income_details @@ [k \in keys |-> 0]

\* C9: in a supported year compute_total_tax_liability never raises for an
\* absent income field: the mapping without some keys gives exactly the
\* TaxResult of the mapping that supplies them as 0, the empty mapping
\* included.
C9_AbsentFieldIsZero ==
    (Done("compute_total_tax_liability") /\ Supported(call.fy_ay)) =>
        LET d == call.income_details
            zeros == {k \in DOMAIN d : d[k] = 0}
        IN  /\ result.kind = "return"
            /\ result = compute_total_tax_liability(
                            WithZeros(d, Keys \ DOMAIN d), call.fy_ay,
                            call.employment_type)
            /\ \A S \in SUBSET zeros :
                   result = compute_total_tax_liability(
                                Without(d, S), call.fy_ay, call.employment_type)

C9_Witness ==
    /\ Returned("compute_total_tax_liability")
    /\ Supported(call.fy_ay)
    /\ call.employment_type = "Salaried"
    /\ DOMAIN call.income_details = {}
    /\ result.value.taxable_income = 0
    /\ result.value.total_tax = M(0)

C11_TaxYearConfigInvariant ==
    (Returned("get_tax_slabs") /\ Supported(call.fy_ay)) =>
        LET config == result.value
            slabs == config.slabs
            n == Len(slabs)
        IN  /\ n >= 1
            /\ slabs[1].lower = 0
            /\ slabs[n].upper = Inf
            /\ \A i \in 1..(n - 1) :
                   /\ slabs[i].upper = slabs[i + 1].lower
                   /\ slabs[i].lower < slabs[i + 1].lower
                   /\ slabs[i].rate <= slabs[i + 1].rate
            /\ \A i \in 1..n : slabs[i].lower < slabs[i].upper
            /\ \A other \in SupportedYears \ {call.fy_ay} :
                   /\ [i \in 1..n |-> <<slabs[i].lower, slabs[i].upper>>]
                          # [i \in 1..Len(get_tax_slabs(other).slabs) |->
                                <<get_tax_slabs(other).slabs[i].lower,
                                  get_tax_slabs(other).slabs[i].upper>>]
                   /\ config.rebate_limit # get_tax_slabs(other).rebate_limit
                   /\ config.rebate_max # get_tax_slabs(other).rebate_max

C11_Witness ==
    /\ Returned("get_tax_slabs")
    /\ call.fy_ay = FY2025
    /\ result.value.slabs[1].upper = 400000
    /\ result.value.slabs[2].lower = 400000
    /\ result.value.rebate_limit = 1200000

\* the contribution of a slab at the income T
Contribution(T, slab) ==
    MulPct(M(Max(0, Min(T, slab.upper) - slab.lower)), slab.rate)

IsPositiveAt(T, slab) == MLt(M(0), Contribution(T, slab))

\* the slabs with a strictly positive contribution, in slab order
PositiveSlabs(T, slabs) == SelectSeq(slabs, LAMBDA slab : IsPositiveAt(T, slab))

RECURSIVE SumOfEntries(_, _)
SumOfEntries(tax_breakdown, j) ==
    IF j > Len(tax_breakdown) THEN M(0)
    ELSE MAdd(tax_breakdown[j].tax, SumOfEntries(tax_breakdown, j + 1))

\* C12: the breakdown of calculate_income_tax holds exactly one entry for
\* each slab with a strictly positive contribution and none for any other
\* slab, in slab order; each entry's tax is its taxable amount times the slab
\* rate, and the entries' tax sums to the gross tax.
C12_BreakdownOfPositiveSlabs ==
    Returned("calculate_income_tax") =>
        LET T == call.taxable_income
            positive == PositiveSlabs(T, get_tax_slabs(call.fy_ay).slabs)
            entries == result.value.tax_breakdown
        IN  /\ Len(entries) = Len(positive)
            /\ \A j \in 1..Len(entries) :
                   /\ entries[j].slab.lower = positive[j].lower
                   /\ entries[j].slab.upper = positive[j].upper
                   /\ entries[j].rate = positive[j].rate
                   /\ entries[j].tax =
                          MulPct(M(entries[j].taxable_amount), positive[j].rate)
                   /\ MLt(M(0), entries[j].tax)
            /\ SumOfEntries(entries, 1) = result.value.tax

C12_Witness ==
    /\ Returned("calculate_income_tax")
    /\ call.fy_ay = FY2025
    /\ call.taxable_income = 700001
    /\ Len(result.value.tax_breakdown) = 2
    /\ result.value.tax_breakdown[1].slab.lower = 400000
    /\ result.value.tax_breakdown[1].tax = M(15000)
    /\ result.value.tax_breakdown[2].taxable_amount = 1

\* the employment types the engine has a rule for
RecognisedTypes == {"Salaried", "Rental", "Freelancer", "Business", "Investor"}

\* C13: for "Mixed", and for any employment type the engine does not
\* recognise, compute_total_tax_liability does not fail in a supported year:
\* taxable income, gross tax, rebate, surcharge and cess are 0 and the
\* breakdown is empty whatever the income fields are, stcg and ltcg are still
\* taxed, and total_tax = stcg_tax + ltcg_tax.
C13_UnrecognisedTypeTaxesGainsOnly ==
    (Done("compute_total_tax_liability") /\ Supported(call.fy_ay)
        /\ call.employment_type \notin RecognisedTypes) =>
        /\ result.kind = "return"
        /\ LET out == result.value
               d == call.income_details
           IN  /\ out.taxable_income = 0
               /\ out.gross_tax = M(0)
               /\ out.rebate_87a = M(0)
               /\ out.tax_after_rebate = M(0)
               /\ out.surcharge = M(0)
               /\ out.cess = M(0)
               /\ out.tax_breakdown = << >>
               /\ out.stcg_tax = MulPct(M(Field(d, "stcg")), 15)
               /\ out.ltcg_tax =
                      MulPct(M(Max(0, Field(d, "ltcg") - 100000)), 10)
               /\ out.total_tax = MAdd(out.stcg_tax, out.ltcg_tax)

C13_Witness ==
    /\ Returned("compute_total_tax_liability")
    /\ call.employment_type = "Mixed"
    /\ call.fy_ay = FY2025
    /\ DOMAIN call.income_details = {"basic_salary", "ltcg"}
    /\ call.income_details["basic_salary"] = 600000
    /\ call.income_details["ltcg"] = 600000
    /\ result.value.taxable_income = 0
    /\ result.value.total_tax = M(50000)

\* what the session holds of a calculation: the keys present, with their values
Stored(state) ==
    [k \in DOMAIN state \cap {"tax_result", "tips"} |-> state[k]]

\* the Reports tab rendered the "Generate PDF Report" button
ReportOffered(shown) == shown.reports \in {"offer", "generated", "failed"}

\* compute_total_tax_liability or get_smart_tips raised in the run shown
CalculationRaised(shown) ==
    shown.taxation.raised_by \in {"compute_total_tax_liability", "get_smart_tips"}

\* C14: in every run of the script, tax_result and tips are in the session
\* both or neither; they change only in a run where "Calculate Tax" was
\* clicked and neither compute_total_tax_liability nor get_smart_tips raised,
\* and the stored result is then the one computed from the stored income and
\* profile; a run in which one of the two raised shows the error and leaves
\* what was stored as it was; report generation is offered only when both
\* are stored.
C14_ResultAndTipsStoredTogether ==
    [][ /\ ("tax_result" \in DOMAIN session') <=> ("tips" \in DOMAIN session')
        /\ ReportOffered(screen') =>
               /\ "tax_result" \in DOMAIN session'
               /\ "tips" \in DOMAIN session'
        /\ Stored(session') # Stored(session) =>
               /\ screen'.taxation.msg \in {"success", "error"}
               /\ ~CalculationRaised(screen')
               /\ session'["tax_result"] =
                      compute_total_tax_liability(session'["income_details"],
                          session'["fy_ay"], session'["employment_type"]).value
        /\ CalculationRaised(screen') =>
               /\ screen'.taxation.msg = "error"
               /\ Stored(session') = Stored(session)
      ]_vars

\* a calculation raised after an earlier one had succeeded
C14_Witness ==
    /\ screen.taxation.raised_by = "get_smart_tips"
    /\ "tax_result" \in DOMAIN session
    /\ "tips" \in DOMAIN session
    /\ screen.reports = "offer"

\* C15: a generated report prints the tax result computed from the income
\* details, fiscal year and employment type it is generated with.
C15_ReportPairsResultWithItsInputs ==
    screen.reports = "generated" =>
        /\ screen.report[1] = report_arguments(session)
        /\ screen.report[1].tax_result =
               compute_total_tax_liability(screen.report[1].income_details,
                   screen.report[1].fy_ay, screen.report[1].employment_type).value

====
